---- MODULE Spec2Model ----
(***************************************************************************)
(* Model of the HEIC/JPEG to AVIF conversion service (src/app.py).         *)
(*                                                                         *)
(* Strings that the code takes apart (filenames, extensions) are sequences *)
(* of one-character strings.  Optional values (None / a value) are         *)
(* sequences of length 0 or 1.  Byte payloads are sequences of naturals.   *)
(***************************************************************************)
EXTENDS Integers, Sequences, FiniteSets, TLC

(* ---------------------------------------------------------------------- *)
(* Bounds of the model                                                     *)
(* ---------------------------------------------------------------------- *)
\* number of requests in flight in the concurrent runs
NReq == 2
\* the modelled encoder produces payloads of 2 .. 1 + AvifLenMod bytes
AvifLenMod == 3

(* ---------------------------------------------------------------------- *)
(* Configuration (src/app.py:41-43)                                        *)
(* ---------------------------------------------------------------------- *)
MAX_FILE_SIZE == 50 * 1024 * 1024

ALLOWED_EXTENSIONS ==
    { <<".", "h", "e", "i", "c">>, <<".", "h", "e", "i", "f">>,
      <<".", "H", "E", "I", "C">>, <<".", "H", "E", "I", "F">>,
      <<".", "j", "p", "g">>,      <<".", "j", "p", "e", "g">>,
      <<".", "J", "P", "G">>,      <<".", "J", "P", "E", "G">> }

JPEG_EXTENSIONS == { <<".", "j", "p", "g">>, <<".", "j", "p", "e", "g">> }

\* Image.thumbnail((300, 300), ...)
THUMB_BOX == <<300, 300>>

(* ---------------------------------------------------------------------- *)
(* Optional values and Python truthiness                                   *)
(* ---------------------------------------------------------------------- *)
None == <<>>

Some(x) == <<x>>

\* `file.filename or ""`
filename_or(opt, default) ==
    IF opt = None THEN default
    ELSE IF opt[1] = <<>> THEN default ELSE opt[1]

\* truthiness of file.size: None and 0 are falsy
size_truthy(opt) == IF opt = None THEN FALSE ELSE opt[1] # 0

(* ---------------------------------------------------------------------- *)
(* str.lower()                                                             *)
(* ---------------------------------------------------------------------- *)
UpperToLower ==
    ("H" :> "h") @@ ("E" :> "e") @@ ("I" :> "i") @@ ("C" :> "c") @@
    ("F" :> "f") @@ ("J" :> "j") @@ ("P" :> "p") @@ ("G" :> "g") @@
    ("T" :> "t") @@ ("X" :> "x") @@ ("A" :> "a") @@ ("B" :> "b") @@
    ("D" :> "d") @@ ("N" :> "n")

lower_keep(s) == s

lower(s) ==
    [i \in 1..Len(s) |->
        IF s[i] \in DOMAIN UpperToLower THEN UpperToLower[s[i]] ELSE s[i]]

(* ---------------------------------------------------------------------- *)
(* pathlib: Path(s).name, .suffix, .stem  (PurePosixPath)                  *)
(* ---------------------------------------------------------------------- *)
\* the components of s between "/" separators, in order
RECURSIVE SplitSlash(_, _, _)
SplitSlash(s, i, cur) ==
    IF i > Len(s) THEN <<cur>>
    ELSE IF s[i] = "/" THEN <<cur>> \o SplitSlash(s, i + 1, <<>>)
    ELSE SplitSlash(s, i + 1, Append(cur, s[i]))

\* pathlib drops empty components and "." components when parsing
PathParts(s) ==
    SelectSeq(SplitSlash(s, 1, <<>>), LAMBDA c : c # <<>> /\ c # <<".">>)

PathName(s) ==
    LET parts == PathParts(s)
    IN IF parts = <<>> THEN <<>> ELSE parts[Len(parts)]

\* str.rfind(".") as a 1-based index, 0 when absent
RECURSIVE rfind_dot(_, _)
rfind_dot(name, i) ==
    IF i = 0 THEN 0
    ELSE IF name[i] = "." THEN i ELSE rfind_dot(name, i - 1)

\* i = name.rfind('.'); if 0 < i < len(name) - 1: return name[i:] else ''
suffix(s) ==
    LET name == PathName(s)
        i == rfind_dot(name, Len(name))
    IN IF 1 < i /\ i < Len(name) THEN SubSeq(name, i, Len(name)) ELSE <<>>

\* i = name.rfind('.'); if 0 < i < len(name) - 1: return name[:i] else name
stem(s) ==
    LET name == PathName(s)
        i == rfind_dot(name, Len(name))
    IN IF 1 < i /\ i < Len(name) THEN SubSeq(name, 1, i - 1) ELSE name

(* ---------------------------------------------------------------------- *)
(* Request validation                                                      *)
(* ---------------------------------------------------------------------- *)
HTTPException(status, detail) == [status |-> status, detail |-> detail]

\* an upload as the handlers see it
UploadFile(filename, size) == [filename |-> filename, size |-> size]

validate_heic_file_size_first(file) ==
    LET file_ext == lower(suffix(filename_or(file.filename, <<>>)))
    IN IF size_truthy(file.size) /\ file.size[1] >= MAX_FILE_SIZE
       THEN Some(HTTPException(413, <<"File too large. Maximum size: ", "50MB">>))
       ELSE IF file_ext \notin ALLOWED_EXTENSIONS
       THEN Some(HTTPException(400, <<"Invalid file type. Allowed: ">>))
       ELSE None

\* validate_heic_file: None when the upload passes, else the HTTPException raised
validate_heic_file(file) ==
    LET file_ext == lower(suffix(filename_or(file.filename, <<>>)))
    IN IF file_ext \notin ALLOWED_EXTENSIONS
       THEN Some(HTTPException(400, <<"Invalid file type. Allowed: ">>))
       ELSE IF size_truthy(file.size) /\ file.size[1] > MAX_FILE_SIZE
       THEN Some(HTTPException(413, <<"File too large. Maximum size: ", "50MB">>))
       ELSE None

validate_jpeg_file_any(file) ==
    IF file.filename = None \/ file.filename = Some(<<>>)
    THEN Some(HTTPException(400, <<"Invalid file type. Expected JPEG file, got ">>))
    ELSE LET file_ext == lower(suffix(file.filename[1]))
         IN IF file_ext \notin ALLOWED_EXTENSIONS
            THEN Some(HTTPException(400,
                     <<"Invalid file type. Expected JPEG file, got ">>))
            ELSE IF size_truthy(file.size) /\ file.size[1] > MAX_FILE_SIZE
            THEN Some(HTTPException(413, <<"File too large. Max size: ", "50MB">>))
            ELSE None

\* validate_jpeg_file
validate_jpeg_file(file) ==
    IF file.filename = None \/ file.filename = Some(<<>>)
    THEN Some(HTTPException(400, <<"No filename provided">>))
    ELSE LET file_ext == lower(suffix(file.filename[1]))
         IN IF file_ext \notin JPEG_EXTENSIONS
            THEN Some(HTTPException(400,
                     <<"Invalid file type. Expected JPEG file, got ">>))
            ELSE IF size_truthy(file.size) /\ file.size[1] > MAX_FILE_SIZE
            THEN Some(HTTPException(413, <<"File too large. Max size: ", "50MB">>))
            ELSE None

\* the validator each endpoint calls before its try block
validate(endpoint, file) ==
    IF endpoint = "/convert-jpeg" THEN validate_jpeg_file(file)
    ELSE validate_heic_file(file)

(* ---------------------------------------------------------------------- *)
(* Images, the resizer and the codec                                       *)
(* ---------------------------------------------------------------------- *)
PixelBuffer(w, h, mode) == [w |-> w, h |-> h, mode |-> mode]

Abs(n) == IF n < 0 THEN 0 - n ELSE n

Max2(a, b) == IF a >= b THEN a ELSE b

\* ceil(num / den) for num >= 0, den > 0
CeilDiv(num, den) == (num + den - 1) \div den

\* Image.thumbnail(size): x = round_aspect(y * aspect, key = |aspect - n / y|)
\* with aspect = w / h.  round_aspect takes floor or ceil of the number,
\* whichever has the smaller key, and at least 1.  The keys are compared here
\* after scaling by h * y.  The code compares them in floating point, where
\* an exact tie is decided by rounding error: both candidates are outcomes.
thumb_x(w, h, y) ==
    LET lo == (y * w) \div h
        hi == CeilDiv(y * w, h)
        klo == Abs(w * y - lo * h)
        khi == Abs(w * y - hi * h)
        picks == IF klo < khi THEN {lo} ELSE IF khi < klo THEN {hi} ELSE {lo, hi}
    IN {Max2(p, 1) : p \in picks}

\* y = round_aspect(x / aspect, key = 0 if n == 0 else |aspect - x / n|);
\* the keys are compared after scaling by h * lo * hi
thumb_y(w, h, x) ==
    LET lo == (x * h) \div w
        hi == CeilDiv(x * h, w)
        klo == Abs(w * lo - x * h) * hi
        khi == Abs(w * hi - x * h) * lo
        picks == IF lo = 0 THEN {lo}
                 ELSE IF klo < khi THEN {lo} ELSE IF khi < klo THEN {hi} ELSE {lo, hi}
    IN {Max2(p, 1) : p \in picks}

thumbnail_always_fit(img, box) ==
    LET x == box[1]
        y == box[2]
    IN IF x * img.h >= y * img.w
       THEN {PixelBuffer(tx, y, img.mode) : tx \in thumb_x(img.w, img.h, y)}
       ELSE {PixelBuffer(x, ty, img.mode) : ty \in thumb_y(img.w, img.h, x)}

\* Image.thumbnail(box): the sizes the image can have after the call (one,
\* except at a floating-point tie)
thumbnail(img, box) ==
    LET x == box[1]
        y == box[2]
    IN IF x >= img.w /\ y >= img.h THEN {img}
       ELSE IF x * img.h >= y * img.w
       THEN {PixelBuffer(tx, y, img.mode) : tx \in thumb_x(img.w, img.h, y)}
       ELSE {PixelBuffer(x, ty, img.mode) : ty \in thumb_y(img.w, img.h, x)}

convert_mode_never(img) == img

\* if img.mode not in ('RGB', 'RGBA'): img = img.convert('RGB')
convert_mode(img) ==
    IF img.mode \notin {"RGB", "RGBA"}
    THEN PixelBuffer(img.w, img.h, "RGB") ELSE img

ModeCode(mode) == IF mode = "RGB" THEN 3 ELSE IF mode = "RGBA" THEN 4 ELSE 1

\* img.save(path, format='AVIF', ...) followed by f.read(): the encoder is a
\* deterministic black box; its output is a byte sequence whose length and
\* content depend on the pixel buffer
avif_encode(img) ==
    LET n == 2 + ((img.w + 2 * img.h + ModeCode(img.mode)) % AvifLenMod)
    IN [i \in 1..n |-> (img.w + 7 * img.h + i * ModeCode(img.mode)) % 256]

AVIF_SUFFIX == <<".", "a", "v", "i", "f">>

THUMB_SUFFIX == <<"_", "t", "h", "u", "m", "b", ".", "a", "v", "i", "f">>

Variant(name, data, filename, size) ==
    [variant |-> name, data |-> data, filename |-> filename, size |-> size]

full_variant_sized(img, input_name) ==
    Variant("full", avif_encode(img), input_name \o AVIF_SUFFIX,
            Len(avif_encode(img)) + 1)

\* variants['full'] = {data, filename: f"{input_name}.avif", size: len(data)}
full_variant(img, input_name) ==
    LET full_data == avif_encode(img)
    IN Variant("full", full_data, input_name \o AVIF_SUFFIX, Len(full_data))

\* variants['thumbnail'] = {data, filename: f"{input_name}_thumb.avif", size}
thumb_variant(thumbnail_img, input_name) ==
    LET thumb_data == avif_encode(thumbnail_img)
    IN Variant("thumbnail", thumb_data, input_name \o THUMB_SUFFIX, Len(thumb_data))

(* ---------------------------------------------------------------------- *)
(* Responses                                                               *)
(* ---------------------------------------------------------------------- *)
Response(status, detail, variants, body, disposition, content_length) ==
    [status |-> status, detail |-> detail, variants |-> variants,
     body |-> body, disposition |-> disposition,
     content_length |-> content_length]

\* FastAPI's rendering of a raised HTTPException
ErrorResponse(e) == Response(e.status, Some(e.detail), None, None, None, None)

\* the names of the dict keys, as text
KeyText(k) ==
    IF k = "full" THEN <<"f", "u", "l", "l">>
    ELSE <<"t", "h", "u", "m", "b", "n", "a", "i", "l">>

Utf8 ==
    ("f" :> 102) @@ ("u" :> 117) @@ ("l" :> 108) @@ ("t" :> 116) @@
    ("h" :> 104) @@ ("m" :> 109) @@ ("b" :> 98) @@ ("n" :> 110) @@
    ("a" :> 97) @@ ("i" :> 105)

\* StreamingResponse encodes a str chunk with the response charset
str_encode(text) == [i \in 1..Len(text) |-> Utf8[text[i]]]

\* base64.b64encode(data).decode('utf-8'), kept symbolic
b64encode(data) == [encoding |-> "base64", of |-> data]

\* the "variants" list of the JSON body, one entry per dict item in
\* insertion order
json_variants(variants) ==
    [i \in 1..Len(variants) |->
        [variant |-> variants[i].variant,
         filename |-> variants[i].filename,
         content |-> b64encode(variants[i].data),
         size |-> variants[i].size,
         mimetype |-> "image/avif"]]

\* convert_image / convert_jpeg_image after a successful conversion
json_response(variants) ==
    Response(200, None, Some(json_variants(variants)), None, None, None)

\* convert_image_stream after a successful conversion:
\*   avif_data, output_filename = convert_heic_to_avif_bytes(...)
\* unpacks the returned dict, which iterates its keys
stream_response(variants) ==
    LET avif_data == KeyText(variants[1].variant)
        output_filename == KeyText(variants[2].variant)
    IN Response(200, None, None, Some(str_encode(avif_data)),
                Some(output_filename), Some(Len(avif_data)))

\* what a failure inside the conversion function becomes: the HEIC function
\* wraps it (except Exception -> "Conversion failed: ..."), the JPEG
\* function lets it propagate to the handler's except Exception
conversion_error(endpoint, cause) ==
    IF endpoint = "/convert-jpeg"
    THEN HTTPException(500, <<"Internal server error">>)
    ELSE HTTPException(500, <<"Conversion failed: ", cause>>)

success_response(endpoint, variants) ==
    IF endpoint = "/convert-stream" THEN stream_response(variants)
    ELSE json_response(variants)

(* ---------------------------------------------------------------------- *)
(* Inputs                                                                  *)
(* ---------------------------------------------------------------------- *)
Reqs == 1..NReq

Endpoints == {"/convert", "/convert-stream", "/convert-jpeg"}

Corrupt == [ok |-> FALSE, img |-> PixelBuffer(1, 1, "RGB")]

Decodable(w, h, mode) == [ok |-> TRUE, img |-> PixelBuffer(w, h, mode)]

Upload(endpoint, filename, size, content) ==
    [endpoint |-> endpoint, filename |-> filename, size |-> size,
     content |-> content]

Stems ==
    { <<>>, <<"a">>, <<"a", ".", "b">>, <<"d", "/", "a">>, <<"d", ".", "x", "/">>,
      <<".">>, <<"A", ".", "j", "p", "g", ".", "a">> }

Exts ==
    { <<>>,
      <<".", "h", "e", "i", "c">>, <<".", "H", "E", "I", "C">>,
      <<".", "H", "e", "I", "c">>, <<".", "h", "e", "i", "f">>,
      <<".", "H", "E", "I", "F">>,
      <<".", "j", "p", "g">>, <<".", "J", "P", "G">>, <<".", "J", "p", "g">>,
      <<".", "j", "p", "e", "g">>, <<".", "J", "P", "E", "G">>,
      <<".", "t", "x", "t">>, <<".", "p", "n", "g">>,
      <<".", "h", "e", "i", "c", ".">>, <<"h", "e", "i", "c">>,
      <<".", "j", "p", "g", "/">> }

Filenames == {None} \cup {Some(st \o ex) : st \in Stems, ex \in Exts}

Sizes ==
    { None, Some(0), Some(1), Some(MAX_FILE_SIZE - 1), Some(MAX_FILE_SIZE),
      Some(MAX_FILE_SIZE + 1), Some(60 * 1024 * 1024) }

Dims == {1, 14, 80, 100, 151, 300, 301, 400, 600, 4000}

Modes == {"RGB", "RGBA", "L", "CMYK"}

PlainJpg == Some(<<"a", ".", "j", "p", "g">>)

\* one client: every filename and declared size, two payloads
NameUploads ==
    { Upload(ep, fn, sz, c) :
        ep \in Endpoints, fn \in Filenames, sz \in Sizes,
        c \in {Corrupt, Decodable(100, 80, "RGB")} }

\* one client: every image, a filename every endpoint accepts
ImageUploads ==
    { Upload(ep, PlainJpg, None, Decodable(w, h, m)) :
        ep \in Endpoints, w \in Dims, h \in Dims, m \in Modes }

\* concurrent clients
ConcUploads ==
    { Upload("/convert", Some(<<"a", ".", "H", "E", "I", "C">>), Some(1),
             Decodable(400, 300, "RGB")),
      Upload("/convert-jpeg", PlainJpg, None, Corrupt),
      Upload("/convert-stream", PlainJpg, Some(MAX_FILE_SIZE + 1), Corrupt) }

NoUpload == Upload("/convert", None, None, Corrupt)

(* ---------------------------------------------------------------------- *)
(* State                                                                   *)
(* ---------------------------------------------------------------------- *)
VARIABLES
    phase,          \* "starting", "serving" or "aborted" (lifespan)
    health,         \* the last response of GET /health, if any
    req,            \* the upload of each request
    pc,             \* the position of each request in its handler
    fs,             \* the temporary files that exist
    cleanup,        \* temp_files_to_cleanup of each request
    img,            \* the decoded (mode-normalised) image of each request
    thumbnail_img,  \* the thumbnail copy of each request
    variants,       \* the variants dict of each request, in insertion order
    exc,            \* the exception a conversion raised, if any
    resp,           \* the response of each request, if sent
    ops             \* history: the steps each request has performed

vars == <<phase, health, req, pc, fs, cleanup, img, thumbnail_img, variants,
          exc, resp, ops>>

TempFile(r, kind) == [owner |-> r, kind |-> kind]

Range(seq) == {seq[i] : i \in DOMAIN seq}

NoImage == PixelBuffer(0, 0, "-")

InitCommon ==
    /\ phase = "starting"
    /\ health = None
    /\ fs = {}
    /\ cleanup = [r \in Reqs |-> <<>>]
    /\ img = [r \in Reqs |-> NoImage]
    /\ thumbnail_img = [r \in Reqs |-> NoImage]
    /\ variants = [r \in Reqs |-> <<>>]
    /\ exc = [r \in Reqs |-> None]
    /\ resp = [r \in Reqs |-> None]
    /\ ops = [r \in Reqs |-> <<>>]

\* a single client, inputs drawn widely
InitSerial ==
    /\ InitCommon
    /\ \E u \in NameUploads \cup ImageUploads :
          req = [r \in Reqs |-> IF r = 1 THEN u ELSE NoUpload]
    /\ pc = [r \in Reqs |-> IF r = 1 THEN "idle" ELSE "off"]

\* NReq clients at once
InitConcurrent ==
    /\ InitCommon
    /\ req \in [Reqs -> ConcUploads]
    /\ pc = [r \in Reqs |-> "idle"]

Init == InitSerial \/ InitConcurrent

(* ---------------------------------------------------------------------- *)
(* Startup and health                                                      *)
(* ---------------------------------------------------------------------- *)
\* lifespan: encode a synthetic 100x100 RGB image to AVIF; an exception is
\* re-raised and the application does not start
lifespan ==
    /\ phase = "starting"
    /\ \E encode_ok \in BOOLEAN :
          phase' = IF encode_ok THEN "serving" ELSE "aborted"
    /\ UNCHANGED <<health, req, pc, fs, cleanup, img, thumbnail_img, variants,
                   exc, resp, ops>>

AcceptingAlways == TRUE

\* the server accepts requests only after the lifespan startup completed
Accepting == phase = "serving"

\* return {"status": "healthy"}
health_body(responses) == "healthy"

\* GET /health
health_check ==
    /\ Accepting
    /\ health' = Some([status |-> 200, body |-> health_body(resp)])
    /\ UNCHANGED <<phase, req, pc, fs, cleanup, img, thumbnail_img, variants,
                   exc, resp, ops>>

(* ---------------------------------------------------------------------- *)
(* The conversion handlers, one step at a time                             *)
(* ---------------------------------------------------------------------- *)
Log(r, step) == [ops EXCEPT ![r] = Append(@, step)]

\* Path(original_filename).stem, with the handler's `file.filename or "image"`
input_name(r) ==
    stem(filename_or(req[r].filename, <<"i", "m", "a", "g", "e">>))

after_validation_ignored(e) == "read"

\* a raised HTTPException leaves the handler; otherwise it goes on to read
after_validation(e) == IF e = None THEN "read" ELSE "done"

\* validate_heic_file(file) / validate_jpeg_file(file), before the try block
Validate(r) ==
    /\ Accepting
    /\ pc[r] = "idle"
    /\ LET e == validate(req[r].endpoint,
                         UploadFile(req[r].filename, req[r].size))
       IN /\ pc' = [pc EXCEPT ![r] = after_validation(e)]
          /\ resp' = [resp EXCEPT ![r] =
                        IF e = None THEN None ELSE Some(ErrorResponse(e[1]))]
    /\ ops' = Log(r, "validate")
    /\ UNCHANGED <<phase, health, req, fs, cleanup, img, thumbnail_img,
                   variants, exc>>

\* data = await file.read(); an I/O error reaches the handler's
\* except Exception
ReadBody(r) ==
    /\ pc[r] = "read"
    /\ ops' = Log(r, "read")
    /\ \E read_ok \in BOOLEAN :
          IF read_ok
          THEN /\ pc' = [pc EXCEPT ![r] = "stage"]
               /\ UNCHANGED resp
          ELSE /\ pc' = [pc EXCEPT ![r] = "done"]
               /\ resp' = [resp EXCEPT ![r] = Some(ErrorResponse(
                             HTTPException(500, <<"Internal server error">>)))]
    /\ UNCHANGED <<phase, health, req, fs, cleanup, img, thumbnail_img,
                   variants, exc>>

\* with NamedTemporaryFile(delete=False) as input_tmp: write, flush;
\* temp_files_to_cleanup = [input_tmp.name].  A failed write leaves the with
\* block before the list and the try/finally exist.
StageInput(r) ==
    /\ pc[r] = "stage"
    /\ ops' = Log(r, "tmpfile")
    /\ fs' = fs \cup {TempFile(r, "input")}
    /\ \E write_ok \in BOOLEAN :
          IF write_ok
          THEN /\ cleanup' = [cleanup EXCEPT ![r] = <<TempFile(r, "input")>>]
               /\ pc' = [pc EXCEPT ![r] = "decode"]
               /\ UNCHANGED resp
          ELSE /\ pc' = [pc EXCEPT ![r] = "done"]
               /\ resp' = [resp EXCEPT ![r] = Some(ErrorResponse(
                             conversion_error(req[r].endpoint, "write failed")))]
               /\ UNCHANGED cleanup
    /\ UNCHANGED <<phase, health, req, img, thumbnail_img, variants, exc>>

after_failure_retry(step) == step

\* an exception raised by a conversion step leaves the try block for the
\* finally clause: no loop or retry surrounds any step
after_failure(step) == "cleanup"

\* with Image.open(path) as img; convert to RGB if necessary
Decode(r) ==
    /\ pc[r] = "decode"
    /\ ops' = Log(r, "decode")
    /\ IF req[r].content.ok
       THEN /\ img' = [img EXCEPT ![r] = convert_mode(req[r].content.img)]
            /\ pc' = [pc EXCEPT ![r] = "full"]
            /\ UNCHANGED exc
       ELSE /\ exc' = [exc EXCEPT ![r] = Some("cannot identify image file")]
            /\ pc' = [pc EXCEPT ![r] = after_failure("decode")]
            /\ UNCHANGED img
    /\ UNCHANGED <<phase, health, req, fs, cleanup, thumbnail_img, variants,
                   resp>>

\* the full-size variant: a second temporary file, img.save, read back
EncodeFull(r) ==
    /\ pc[r] = "full"
    /\ ops' = Log(r, "encode_full")
    /\ fs' = fs \cup {TempFile(r, "full")}
    /\ cleanup' = [cleanup EXCEPT ![r] = Append(@, TempFile(r, "full"))]
    /\ \E save_ok \in BOOLEAN :
          IF save_ok
          THEN /\ variants' = [variants EXCEPT ![r] =
                                 Append(@, full_variant(img[r], input_name(r)))]
               /\ pc' = [pc EXCEPT ![r] = "thumb"]
               /\ UNCHANGED exc
          ELSE /\ exc' = [exc EXCEPT ![r] = Some("encoder error")]
               /\ pc' = [pc EXCEPT ![r] = after_failure("full")]
               /\ UNCHANGED variants
    /\ UNCHANGED <<phase, health, req, img, thumbnail_img, resp>>

\* the thumbnail variant: img.copy(), thumbnail((300, 300)), a third
\* temporary file, save, read back
EncodeThumb(r) ==
    /\ pc[r] = "thumb"
    /\ ops' = Log(r, "encode_thumb")
    /\ fs' = fs \cup {TempFile(r, "thumb")}
    /\ cleanup' = [cleanup EXCEPT ![r] = Append(@, TempFile(r, "thumb"))]
    /\ \E t \in thumbnail(img[r], THUMB_BOX) :
          /\ thumbnail_img' = [thumbnail_img EXCEPT ![r] = t]
          /\ \E save_ok \in BOOLEAN :
                IF save_ok
                THEN /\ variants' = [variants EXCEPT ![r] =
                                       Append(@, thumb_variant(t, input_name(r)))]
                     /\ UNCHANGED exc
                ELSE /\ exc' = [exc EXCEPT ![r] = Some("encoder error")]
                     /\ UNCHANGED variants
    /\ pc' = [pc EXCEPT ![r] = "cleanup"]
    /\ UNCHANGED <<phase, health, req, img, resp>>

\* the finally block (os.unlink of every listed file, failures ignored),
\* then the response: the variants, or the error the exception becomes
Finish(r) ==
    /\ pc[r] = "cleanup"
    /\ ops' = Log(r, "unlink")
    /\ \E unlink_failed \in SUBSET Range(cleanup[r]) :
          fs' = fs \ (Range(cleanup[r]) \ unlink_failed)
    /\ resp' = [resp EXCEPT ![r] =
                  IF exc[r] = None
                  THEN Some(success_response(req[r].endpoint, variants[r]))
                  ELSE Some(ErrorResponse(
                          conversion_error(req[r].endpoint, exc[r][1])))]
    /\ pc' = [pc EXCEPT ![r] = "done"]
    /\ UNCHANGED <<phase, health, req, cleanup, img, thumbnail_img, variants,
                   exc>>

Next ==
    \/ lifespan
    \/ health_check
    \/ \E r \in Reqs : Validate(r)
    \/ \E r \in Reqs : ReadBody(r)
    \/ \E r \in Reqs : StageInput(r)
    \/ \E r \in Reqs : Decode(r)
    \/ \E r \in Reqs : EncodeFull(r)
    \/ \E r \in Reqs : EncodeThumb(r)
    \/ \E r \in Reqs : Finish(r)

Spec == Init /\ [][Next]_vars

(* ---------------------------------------------------------------------- *)
(* Vocabulary of the properties                                            *)
(* ---------------------------------------------------------------------- *)
HeicEndpoints == {"/convert", "/convert-stream"}

JsonEndpoints == {"/convert", "/convert-jpeg"}

Did(r, step) == \E i \in DOMAIN ops[r] : ops[r][i] = step

Validated(r) == Did(r, "validate")

Completed(r) == pc[r] = "done" /\ resp[r] # None

Status(r) == resp[r][1].status

\* the request was turned away by validation
RejectedWith(r, status) ==
    /\ Completed(r)
    /\ ops[r] = <<"validate">>
    /\ Status(r) = status

\* the position of the last "." of a name, 0 when there is none
LastDot(name) ==
    IF \E i \in DOMAIN name : name[i] = "."
    THEN CHOOSE i \in DOMAIN name :
            name[i] = "." /\ \A j \in DOMAIN name : j > i => name[j] # "."
    ELSE 0

\* the extension of a filename, without its dot: what follows the last dot
\* of the final path component, when that dot is neither its first nor its
\* last character
Extension(fn) ==
    LET name == PathName(filename_or(fn, <<>>))
        d == LastDot(name)
    IN IF d > 1 /\ d < Len(name) THEN SubSeq(name, d + 1, Len(name)) ELSE <<>>

\* the final path component without its extension
Basename(fn) ==
    LET name == PathName(filename_or(fn, <<>>))
        e == Extension(fn)
    IN IF e = <<>> THEN name ELSE SubSeq(name, 1, Len(name) - Len(e) - 1)

UpperOf ==
    ("h" :> "H") @@ ("e" :> "E") @@ ("i" :> "I") @@ ("c" :> "C") @@
    ("f" :> "F") @@ ("j" :> "J") @@ ("p" :> "P") @@ ("g" :> "G")

\* e spells the lower-case word, in any mix of cases
SameIgnoringCase(e, word) ==
    /\ Len(e) = Len(word)
    /\ \A i \in DOMAIN word : e[i] = word[i] \/ e[i] = UpperOf[word[i]]

HeicWords ==
    { <<"h", "e", "i", "c">>, <<"h", "e", "i", "f">>,
      <<"j", "p", "g">>, <<"j", "p", "e", "g">> }

JpegWords == { <<"j", "p", "g">>, <<"j", "p", "e", "g">> }

ExtensionIn(fn, words) == \E w \in words : SameIgnoringCase(Extension(fn), w)

Oversized(sz) == sz # None /\ sz[1] > MAX_FILE_SIZE

OwnFiles(r) == {f \in fs : f.owner = r}

(* ---------------------------------------------------------------------- *)
(* C1                                                                      *)
(* ---------------------------------------------------------------------- *)
\* C1: on /convert and /convert-stream a validated request is rejected with
\* 400 exactly when the extension of its filename, compared without regard
\* to case, is not one of heic, heif, jpg, jpeg (an absent filename and a
\* filename without extension included), whatever the upload contains.
C1_ExtensionAllowList ==
    \A r \in Reqs :
        (req[r].endpoint \in HeicEndpoints /\ Validated(r)) =>
            IF ExtensionIn(req[r].filename, HeicWords)
            THEN ~(Completed(r) /\ Status(r) = 400)
            ELSE RejectedWith(r, 400)

\* a mixed-case extension passed validation and an upload without extension
\* is covered by the same run: here the mixed-case one has been accepted
C1_Witness ==
    \E r \in Reqs :
        /\ req[r].endpoint = "/convert"
        /\ req[r].filename = Some(<<"a", ".", "H", "e", "I", "c">>)
        /\ req[r].content = Corrupt
        /\ pc[r] = "read"

(* ---------------------------------------------------------------------- *)
(* C2                                                                      *)
(* ---------------------------------------------------------------------- *)
\* C2 as stated: on every conversion endpoint a validated request whose
\* declared size exceeds 52,428,800 bytes is answered 413, and a declared
\* size of exactly 52,428,800 bytes, or none, is never answered 413.
C2_Original ==
    \A r \in Reqs :
        Validated(r) =>
            IF Oversized(req[r].size)
            THEN RejectedWith(r, 413)
            ELSE ~(Completed(r) /\ Status(r) = 413)

\* C2 amended: the size is looked at only after the filename check.  A
\* validated request whose filename passes its endpoint's extension check and
\* whose declared size exceeds 52,428,800 bytes is answered 413; one whose
\* filename fails the check is answered 400 whatever size it declares; a
\* declared size of at most 52,428,800 bytes, or none, is never answered 413.
C2_SizeLimitAfterExtension ==
    \A r \in Reqs :
        Validated(r) =>
            LET words == IF req[r].endpoint = "/convert-jpeg"
                         THEN JpegWords ELSE HeicWords
            IN IF ~Oversized(req[r].size)
               THEN ~(Completed(r) /\ Status(r) = 413)
               ELSE IF ExtensionIn(req[r].filename, words)
                    THEN RejectedWith(r, 413)
                    ELSE RejectedWith(r, 400)

\* an upload of exactly the maximum size went on to be read, on the JPEG
\* endpoint
C2_Witness ==
    \E r \in Reqs :
        /\ req[r].endpoint = "/convert-jpeg"
        /\ req[r].size = Some(MAX_FILE_SIZE)
        /\ pc[r] = "stage"

(* ---------------------------------------------------------------------- *)
(* C3                                                                      *)
(* ---------------------------------------------------------------------- *)
\* C3: validation is the first step of every request, and a request whose
\* validation fails is answered 400 or 413 and does nothing else: its body
\* is not read, it has no temporary file, nothing was decoded or encoded.
\* Conversely a 4xx answer only ever comes from validation.
C3_NoConversionAfterRejection ==
    \A r \in Reqs :
        /\ ops[r] # <<>> => ops[r][1] = "validate"
        /\ (Validated(r) /\ validate(req[r].endpoint,
                UploadFile(req[r].filename, req[r].size)) # None) =>
              /\ Completed(r)
              /\ Status(r) \in {400, 413}
        /\ (resp[r] # None /\ Status(r) \in 400..499) =>
              /\ ops[r] = <<"validate">>
              /\ OwnFiles(r) = {}
              /\ cleanup[r] = <<>>
              /\ variants[r] = <<>>
              /\ img[r] = NoImage

\* an oversized upload was rejected while another request is converting
C3_Witness ==
    \E r, q \in Reqs :
        /\ RejectedWith(r, 413)
        /\ pc[q] = "cleanup"
        /\ OwnFiles(q) # {}

(* ---------------------------------------------------------------------- *)
(* C4                                                                      *)
(* ---------------------------------------------------------------------- *)
\* C4: on /convert-jpeg a validated request passes the filename check exactly
\* when its extension is jpg or jpeg in any mix of cases; a heic or heif
\* extension is answered 400; an absent or empty filename is answered 400
\* with the missing-filename message, which no wrong-extension answer uses.
C4_JpegOnly ==
    \A r \in Reqs :
        (req[r].endpoint = "/convert-jpeg" /\ Validated(r)) =>
            LET missing == req[r].filename \in {None, Some(<<>>)}
            IN /\ IF ExtensionIn(req[r].filename, JpegWords)
                  THEN ~(Completed(r) /\ Status(r) = 400)
                  ELSE RejectedWith(r, 400)
               /\ (~ExtensionIn(req[r].filename, JpegWords)) =>
                     (resp[r][1].detail = Some(<<"No filename provided">>)
                        <=> missing)

\* a HEIC filename was turned away by the JPEG endpoint
C4_Witness ==
    \E r \in Reqs :
        /\ req[r].endpoint = "/convert-jpeg"
        /\ req[r].filename = Some(<<"a", ".", "h", "e", "i", "c">>)
        /\ RejectedWith(r, 400)
        /\ resp[r][1].detail # Some(<<"No filename provided">>)

(* ---------------------------------------------------------------------- *)
(* C5                                                                      *)
(* ---------------------------------------------------------------------- *)
\* C5: every 200 response of /convert and /convert-jpeg lists exactly two
\* variants, "full" then "thumbnail"; for an upload whose filename has stem
\* S they are named S.avif and S_thumb.avif, and the size of each is the
\* number of bytes of the payload its content encodes.
C5_TwoVariants ==
    \A r \in Reqs :
        (req[r].endpoint \in JsonEndpoints /\ resp[r] # None /\ Status(r) = 200) =>
            /\ resp[r][1].variants # None
            /\ LET vs == resp[r][1].variants[1]
                   S == Basename(req[r].filename)
               IN /\ Len(vs) = 2
                  /\ vs[1].variant = "full"
                  /\ vs[2].variant = "thumbnail"
                  /\ vs[1].filename = S \o <<".", "a", "v", "i", "f">>
                  /\ vs[2].filename =
                        S \o <<"_", "t", "h", "u", "m", "b", ".", "a", "v", "i", "f">>
                  /\ \A i \in 1..2 : vs[i].size = Len(vs[i].content.of)

\* a successful JSON response for an upload in a directory, with a dotted
\* stem
C5_Witness ==
    \E r \in Reqs :
        /\ req[r].endpoint = "/convert-jpeg"
        /\ req[r].filename = Some(<<"d", "/", "a", ".", "J", "p", "g">>)
        /\ Completed(r)
        /\ Status(r) = 200
        /\ resp[r][1].variants[1][1].filename = <<"a", ".", "a", "v", "i", "f">>

(* ---------------------------------------------------------------------- *)
(* C6                                                                      *)
(* ---------------------------------------------------------------------- *)
\* C6: a 200 response of /convert-stream carries the encoded bytes of the
\* full variant, names the attachment {stem}.avif, and declares the length
\* of those bytes.
C6_StreamIsFullVariant ==
    \A r \in Reqs :
        (req[r].endpoint = "/convert-stream" /\ resp[r] # None /\ Status(r) = 200) =>
            /\ resp[r][1].body = Some(variants[r][1].data)
            /\ resp[r][1].disposition =
                  Some(Basename(req[r].filename) \o <<".", "a", "v", "i", "f">>)
            /\ resp[r][1].content_length = Some(Len(variants[r][1].data))

(* ---------------------------------------------------------------------- *)
(* C7                                                                      *)
(* ---------------------------------------------------------------------- *)
\* C7: on every conversion endpoint a request whose decode or encode raised
\* is answered 500 with the detail "Conversion failed: " followed by the
\* text of the failure.
C7_ConversionFailed ==
    \A r \in Reqs :
        (Completed(r) /\ exc[r] # None) =>
            /\ Status(r) = 500
            /\ resp[r][1].detail = Some(<<"Conversion failed: ", exc[r][1]>>)

(* ---------------------------------------------------------------------- *)
(* C8                                                                      *)
(* ---------------------------------------------------------------------- *)
NothingServed ==
    /\ health = None
    /\ \A r \in Reqs : ops[r] = <<>> /\ resp[r] = None

\* C8: while the startup self-check has not succeeded nothing is served, not
\* even /health; a failed self-check is final; and every /health response is
\* 200 {"status": "healthy"}, whatever the conversions answered.
C8_StartupGate ==
    /\ [](/\ phase # "serving" => NothingServed
          /\ health # None => health = Some([status |-> 200, body |-> "healthy"]))
    /\ [][phase = "aborted" => phase' = "aborted"]_vars

\* /health answered healthy after a conversion was answered 500
C8_Witness ==
    /\ phase = "serving"
    /\ health = Some([status |-> 200, body |-> "healthy"])
    /\ \E r \in Reqs : Completed(r) /\ Status(r) = 500

(* ---------------------------------------------------------------------- *)
(* C9                                                                      *)
(* ---------------------------------------------------------------------- *)
\* C9: once the thumbnail step of a request has run on a decoded image of
\* W x H pixels, the thumbnail is at least 1 x 1, at most 300 on either side
\* and at most W x H; it is exactly W x H when W <= 300 and H <= 300, and
\* otherwise its sides are in the proportion W : H up to the rounding of one
\* side to a whole pixel.  The decoded buffer still is W x H, and the full
\* variant holds the encoding of that buffer.
C9_ThumbnailBound ==
    \A r \in Reqs :
        Did(r, "encode_thumb") =>
            LET W == req[r].content.img.w
                H == req[r].content.img.h
                t == thumbnail_img[r]
            IN /\ t.w >= 1 /\ t.h >= 1
               /\ t.w <= 300 /\ t.h <= 300
               /\ t.w <= W /\ t.h <= H
               /\ (W <= 300 /\ H <= 300) => (t.w = W /\ t.h = H)
               /\ Abs(t.w * H - t.h * W) <= Max2(W, H)
               /\ img[r].w = W /\ img[r].h = H
               /\ variants[r][1].data =
                     avif_encode(PixelBuffer(W, H, img[r].mode))

\* the 100x80 upload kept its size in the thumbnail
C9_Witness ==
    \E r \in Reqs :
        /\ req[r].content = Decodable(100, 80, "RGB")
        /\ Completed(r)
        /\ Status(r) = 200
        /\ thumbnail_img[r] = PixelBuffer(100, 80, "RGB")

(* ---------------------------------------------------------------------- *)
(* C10                                                                     *)
(* ---------------------------------------------------------------------- *)
\* C10: a request that has completed has left no temporary file behind.
C10_NoTempFileRemains ==
    \A r \in Reqs : pc[r] = "done" => OwnFiles(r) = {}

(* ---------------------------------------------------------------------- *)
(* C11                                                                     *)
(* ---------------------------------------------------------------------- *)
\* how many times a request performed a step
Count(r, step) == Cardinality({i \in DOMAIN ops[r] : ops[r][i] = step})

ConversionSteps == {"decode", "encode_full", "encode_thumb"}

PassedValidation(r) ==
    /\ Validated(r)
    /\ validate(req[r].endpoint, UploadFile(req[r].filename, req[r].size)) = None

\* no step is repeated, and the step that raised is the last conversion
\* step of its request
NoRetry(r) ==
    /\ \A step \in {"validate", "read", "tmpfile", "unlink"} \cup ConversionSteps :
          Count(r, step) <= 1
    /\ exc[r] # None =>
          \E i \in DOMAIN ops[r] :
              /\ ops[r][i] \in ConversionSteps
              /\ \A j \in DOMAIN ops[r] : j > i => ops[r][j] = "unlink"

OneOfTheStatuses(r) ==
    resp[r] # None => (pc[r] = "done" /\ Status(r) \in {200, 400, 413, 500})

\* C11 as stated: every completed request that passed validation decoded
\* exactly once, encoded each variant at most once, retried nothing and has
\* a response with status 200, 400, 413 or 500.
C11_Original ==
    \A r \in Reqs :
        /\ NoRetry(r)
        /\ OneOfTheStatuses(r)
        /\ (PassedValidation(r) /\ pc[r] = "done") => Count(r, "decode") = 1

\* C11 amended: no step of a request runs twice and a failed step is never
\* retried; a completed request that passed validation decoded exactly once
\* unless reading the body or staging it failed, in which case it decoded
\* nothing and was answered 500; a response, once sent, is the only one and
\* its status is 200, 400, 413 or 500.
C11_AttemptedOnce ==
    /\ [](\A r \in Reqs :
            /\ NoRetry(r)
            /\ OneOfTheStatuses(r)
            /\ (PassedValidation(r) /\ pc[r] = "done") =>
                  IF cleanup[r] # <<>>
                  THEN Count(r, "decode") = 1
                  ELSE /\ \A step \in ConversionSteps : Count(r, step) = 0
                       /\ Status(r) = 500)
    /\ [][\A r \in Reqs :
            resp[r] # None => (resp'[r] = resp[r] /\ ops'[r] = ops[r])]_vars

\* a request whose full variant failed to encode ended with 500 after one
\* decode and one encode, while another request was answered 200
C11_Witness ==
    \E r, q \in Reqs :
        /\ Completed(r) /\ Status(r) = 500
        /\ ops[r] = <<"validate", "read", "tmpfile", "decode", "encode_full", "unlink">>
        /\ Completed(q) /\ Status(q) = 200

(* ---------------------------------------------------------------------- *)
(* C12                                                                     *)
(* ---------------------------------------------------------------------- *)
\* the mode the encoder is to see for a decoded image of the given mode
EncoderMode(mode) == IF mode \in {"RGB", "RGBA"} THEN mode ELSE "RGB"

\* C12: from the end of the decode step on, thus before the first encode,
\* the buffer of a request has mode RGB or RGBA: the decoded mode itself when
\* that is RGB or RGBA, and RGB otherwise.  The buffer encoded as the full
\* variant and the buffer encoded as the thumbnail both have that mode, and
\* the payloads are the encodings of buffers of that mode.
C12_EncoderSeesRgb ==
    \A r \in Reqs :
        LET src == req[r].content.img
            mode == EncoderMode(src.mode)
        IN /\ (Did(r, "decode") /\ req[r].content.ok) =>
                 /\ img[r].mode \in {"RGB", "RGBA"}
                 /\ img[r].mode = mode
           /\ Did(r, "encode_full") => Did(r, "decode") /\ req[r].content.ok
           /\ Len(variants[r]) >= 1 =>
                 variants[r][1].data = avif_encode(PixelBuffer(src.w, src.h, mode))
           /\ Did(r, "encode_thumb") =>
                 /\ thumbnail_img[r].mode \in {"RGB", "RGBA"}
                 /\ thumbnail_img[r].mode = mode
           /\ Len(variants[r]) >= 2 =>
                 variants[r][2].data =
                    avif_encode(PixelBuffer(thumbnail_img[r].w, thumbnail_img[r].h, mode))

\* a CMYK upload was converted and both variants were encoded from RGB
C12_Witness ==
    \E r \in Reqs :
        /\ req[r].content = Decodable(600, 400, "CMYK")
        /\ Completed(r) /\ Status(r) = 200
        /\ img[r].mode = "RGB"
        /\ thumbnail_img[r] = PixelBuffer(300, 200, "RGB")
        /\ Len(variants[r]) = 2

====
